---- MODULE Spec2Model ----
(***************************************************************************)
(* The fork-aware transaction pool's View and its cancellable background   *)
(* revalidation protocol (fork_aware_txpool/view.rs).                      *)
(*                                                                         *)
(* A view owns a handle to a store (graph::Pool), a block position `at`    *)
(* and a mutex-protected slot holding the view-side endpoints of the two   *)
(* capacity-1 channels of the outstanding revalidation run.  A run is      *)
(* made of the worker executing View::revalidate and of the call of        *)
(* View::finish_revalidation that takes the run's endpoints.               *)
(***************************************************************************)
EXTENDS Integers, Sequences, FiniteSets, TLC

\* ------------------------------------------------------------------ bounds
MaxTx == 2
MaxRuns == 2

Hashes == 1..MaxTx
Runs == 1..MaxRuns
\* View 1 is the view built by View::new, view 2 its successor built by
\* View::new_from_other.
Views == {1, 2}
StoreIds == {1, 2}

\* ------------------------------------------------------- blocks and oracle
NoAt == [hash |-> "-", number |-> 0]
FirstAt == [hash |-> "B1", number |-> 1]
\* The positions a successor view is created at; "BX" is a hash the chain
\* cannot resolve to a number.
NewAts == {[hash |-> "B2", number |-> 2], [hash |-> "BX", number |-> 2]}

\* ChainApi::block_id_to_number: 0 stands for Ok(None).
BlockIdToNumber(hash) ==
    CASE hash = "B1" -> 1
      [] hash = "B2" -> 2
      [] OTHER -> 0

\* ChainApi::validate_transaction(at, source, xt): the answers the oracle may
\* give.  Err is a failure of the call itself, Ok(Err(Invalid)) and
\* Ok(Err(Unknown)) are the two invalidity classes, Ok(Ok(validity)) carries
\* the verdict computed at block `hash`.
ValidateTransaction(hash, t) ==
    { [kind |-> "Valid", validity |-> hash],
      [kind |-> "Invalid", validity |-> "-"],
      [kind |-> "Unknown", validity |-> "-"],
      [kind |-> "Error", validity |-> "-"] }

BlockHashes == {"B1", "B2", "BX"}

\* ChainApi::hash_and_length: a transaction body is identified by its hash.
HashOf(data) == data

\* ------------------------------------------------------------- the store
\* The dependency relation of the transactions: t requires every member of
\* Requires(t) to be provided before it is ready.
Requires(t) == IF t = 1 THEN {} ELSE {t - 1}

Absent == [num |-> 0, validity |-> "-", source |-> "-", data |-> 0]

\* ValidatedTransaction::valid_at(number, hash, source, data, length, validity)
ValidAt(number, hash, source, data, validity) ==
    [num |-> number, validity |-> validity, source |-> source, data |-> data]

EmptyStore == [h \in Hashes |-> Absent]

Present(st) == {h \in Hashes : st[h] # Absent}

\* The hashes that transitively depend on h (h included).
RECURSIVE Subtree(_, _)
Subtree(roots, n) ==
    IF n = 0 THEN roots
    ELSE Subtree(roots \cup {t \in Hashes : Requires(t) \cap roots # {}}, n - 1)

\* ValidatedPool::ready: the transactions whose requirements are all ready.
RECURSIVE ReadySet(_, _, _)
ReadySet(st, acc, n) ==
    IF n = 0 THEN acc
    ELSE ReadySet(st,
                  acc \cup {h \in Present(st) : Requires(h) \subseteq acc},
                  n - 1)

Ready(st) == ReadySet(st, {}, MaxTx)

\* The ready set as the ordered batch the worker iterates over.
RECURSIVE ReadySeq(_, _)
ReadySeq(st, h) ==
    IF h > MaxTx THEN <<>>
    ELSE (IF h \in Ready(st)
          THEN <<[hash |-> h, source |-> st[h].source, data |-> st[h].data]>>
          ELSE <<>>) \o ReadySeq(st, h + 1)

\* ValidatedPool::submit of one validated transaction: a hash the store
\* already knows is rejected.
StoreSubmit(st, h, entry) ==
    IF st[h] # Absent THEN st ELSE [st EXCEPT ![h] = entry]

\* ValidatedPool::remove_invalid: plain removal of the listed hashes.
RECURSIVE RemoveInvalid(_, _)
RemoveInvalid(st, hs) ==
    IF hs = <<>> THEN st
    ELSE RemoveInvalid([st EXCEPT ![Head(hs)] = Absent], Tail(hs))

\* Pool::resubmit: the revalidated records enter the store as validated
\* entries, replacing what the store holds under the same hash.
Resubmit(st, revalidated) ==
    [h \in Hashes |-> IF revalidated[h] # Absent THEN revalidated[h] ELSE st[h]]

\* ValidatedPool::remove_subtree
StoreRemoveSubtree(st, h) ==
    IF st[h] = Absent THEN st
    ELSE [x \in Hashes |-> IF x \in Subtree({h}, MaxTx) THEN Absent ELSE st[x]]

\* Result<ValidatedPoolSubmitOutcome, Error>, as the submission paths return
\* it: the outcome names the imported hash, the error its kind.
Ok(h) == [kind |-> "Ok", hash |-> h]
Err(e) == [kind |-> e, hash |-> 0]

\* What ValidatedPool::submit returns for one validated transaction.
StoreSubmitResult(st, h) ==
    IF st[h] # Absent THEN Err("AlreadyImported") ELSE Ok(h)

\* ValidatedPool::check_is_known(hash, ignore_banned): the hash is reported
\* (an Err) when it is imported, and when it is banned unless the banned
\* markings are to be ignored.
CheckIsKnown(st, bn, h, ignore_banned) ==
    IF ~ignore_banned /\ h \in bn THEN Err("TemporarilyBanned")
    ELSE IF st[h] # Absent THEN Err("AlreadyImported")
    ELSE Ok(h)

\* What ValidatedPool::remove_subtree returns: the removed hashes, root
\* first, and the calls of listener_action it made, one per removed hash.
RECURSIVE SeqOf(_, _)
SeqOf(hs, h) ==
    IF h > MaxTx THEN <<>>
    ELSE (IF h \in hs THEN <<h>> ELSE <<>>) \o SeqOf(hs, h + 1)

RemovedBySubtree(st, h) ==
    IF st[h] = Absent THEN <<>>
    ELSE SeqOf(Subtree({h}, MaxTx) \cap Present(st), 1)

\* The sources a batch submission tags its transactions with.
Sources == {"External"}

\* The inputs of a batch submission: the source, the transaction body and
\* the answer the oracle gives for it.
Inputs == [source : Sources, data : Hashes,
           answer : UNION {ValidateTransaction(b, t) :
                              b \in {"B1", "B2", "BX"}, t \in Hashes}]

\* Pool::submit_at(at, xts): every input is validated at `at` and the valid
\* ones are submitted to the store, stamped with at.number; one result per
\* input, in the order of the inputs.
RECURSIVE SubmitAt(_, _, _, _)
SubmitAt(st, at_, xs, acc) ==
    IF xs = <<>> THEN [store |-> st, results |-> acc]
    ELSE LET x == Head(xs)
             h == HashOf(x.data)
             validated == ValidAt(at_.number, h, x.source, x.data,
                                  x.answer.validity)
         IN  IF x.answer.kind = "Valid"
             THEN SubmitAt(StoreSubmit(st, h, validated), at_, Tail(xs),
                           Append(acc, StoreSubmitResult(st, h)))
             ELSE SubmitAt(st, at_, Tail(xs),
                           Append(acc,
                             Err(CASE x.answer.kind = "Invalid" ->
                                         "InvalidTransaction"
                                   [] x.answer.kind = "Unknown" ->
                                         "UnknownTransaction"
                                   [] OTHER -> "ApiError")))

\* ------------------------------------------------------------------ state
VARIABLES
    views,      \* the views that have been constructed
    at,         \* View::at
    pool,       \* View::pool: the handle of the view's store
    stores,     \* the stores, by handle
    slot,       \* View::revalidation_worker_channels; run = 0 is None
    nruns,      \* the number of runs started so far
    rview,      \* the view a run revalidates (0: run not started)
    wpc,        \* the worker's position in View::revalidate
    batch,      \* revalidate: what is left of batch_iter
    cur,        \* revalidate: the transaction whose validation is in flight
    results,    \* revalidate: validation_results
    cbuf,       \* the finish-request channel's buffer (0 or 1 message)
    rbuf,       \* the result channel's buffer (at most one result)
    fpc,        \* the position of the finish_revalidation call that took the run
    ftx,        \* finish_revalidation: finish_revalidation_request_tx is Some
    fres,       \* finish_revalidation: what revalidation_result_rx.recv() gave
    nsent,      \* history: results the run's worker put on the result channel
    napplied,   \* history: results of the run applied to the store
    purged,     \* history: hashes an applied result removed, not inserted since
    last,       \* history: the most recent call, where a claim needs it
    obs,        \* history: whether `last` records what the calls return
    banned,     \* the hashes a store holds as banned, by handle
    snap        \* history: the ready-set snapshot of a run's worker

vars == <<views, at, pool, stores, slot, nruns, rview, wpc, batch, cur, results,
          cbuf, rbuf, fpc, ftx, fres, nsent, napplied, purged, last, obs,
          banned, snap>>

NoSlot == [run |-> 0, tx |-> FALSE]
NoTx == [hash |-> 0, source |-> "-", data |-> 0]
NoCall == [op |-> "-", view |-> 0, at |-> NoAt]

StoreOf(v) == stores[pool[v]]

Init ==
    /\ views = {1}
    /\ at = [v \in Views |-> IF v = 1 THEN FirstAt ELSE NoAt]
    /\ pool = [v \in Views |-> IF v = 1 THEN 1 ELSE 0]
    /\ stores = [s \in StoreIds |-> EmptyStore]
    /\ slot = [v \in Views |-> NoSlot]
    /\ nruns = 0
    /\ rview = [r \in Runs |-> 0]
    /\ wpc = [r \in Runs |-> "none"]
    /\ batch = [r \in Runs |-> <<>>]
    /\ cur = [r \in Runs |-> NoTx]
    /\ results = [r \in Runs |-> <<>>]
    /\ cbuf = [r \in Runs |-> 0]
    /\ rbuf = [r \in Runs |-> <<>>]
    /\ fpc = [r \in Runs |-> "none"]
    /\ ftx = [r \in Runs |-> FALSE]
    /\ fres = [r \in Runs |-> <<>>]
    /\ nsent = [r \in Runs |-> 0]
    /\ napplied = [r \in Runs |-> 0]
    /\ purged = [v \in Views |-> {}]
    /\ last = NoCall
    /\ obs = FALSE
    /\ banned = [s \in StoreIds |-> {}]
    /\ snap = [r \in Runs |-> <<>>]

\* ------------------------------------------------------ channel endpoints
\* The finish-request sender lives in the slot until finish_revalidation
\* takes it, and in that call until its send is over.
SenderAlive(r) ==
    \/ /\ rview[r] # 0
       /\ slot[rview[r]].run = r
       /\ slot[rview[r]].tx
    \/ fpc[r] = "taken" /\ ftx[r]

\* The result receiver lives in the slot, then in the call that took it until
\* its recv() is over.
ReceiverAlive(r) ==
    \/ rview[r] # 0 /\ slot[rview[r]].run = r
    \/ fpc[r] \in {"taken", "recv"}

\* The worker-side endpoints live from the hand-over to the queue until
\* revalidate returns (or the queue drops the request).
WorkerAlive(r) == wpc[r] \in {"queued", "loop", "validating", "send"}

\* finish_revalidation_request_rx.recv() is ready: a message, or a closed
\* channel (every sender dropped).
CancelReady(r) == cbuf[r] = 1 \/ ~SenderAlive(r)

\* ------------------------------------------------------------ view: clone
\* NewFromOther sharing the source's store instead of deep-cloning it.
NewFromOther_Shallow(v, w, new_at) ==
    /\ v \in views
    /\ w \notin views
    /\ views' = views \cup {w}
    /\ at' = [at EXCEPT ![w] = new_at]
    /\ pool' = [pool EXCEPT ![w] = pool[v]]
    /\ slot' = [slot EXCEPT ![w] = NoSlot]
    /\ purged' = [purged EXCEPT ![w] = purged[v]]
    /\ last' = [op |-> "new_from_other", view |-> w, at |-> new_at]
    /\ UNCHANGED <<obs, banned, snap>>
    /\ UNCHANGED <<stores, nruns, rview, wpc, batch, cur, results, cbuf, rbuf, fpc,
                   ftx, fres, nsent, napplied>>

\* NewFromOther moving the source's registered channels into the new view.
NewFromOther_TakeChannels(v, w, new_at) ==
    /\ v \in views
    /\ w \notin views
    /\ views' = views \cup {w}
    /\ at' = [at EXCEPT ![w] = new_at]
    /\ pool' = [pool EXCEPT ![w] = w]
    /\ stores' = [stores EXCEPT ![w] = stores[pool[v]]]
    /\ slot' = [slot EXCEPT ![w] = slot[v], ![v] = NoSlot]
    /\ purged' = [purged EXCEPT ![w] = {}]
    /\ last' = [op |-> "new_from_other", view |-> w, at |-> new_at]
    /\ banned' = [banned EXCEPT ![w] = banned[pool[v]]]
    /\ UNCHANGED <<obs, snap>>
    /\ UNCHANGED <<nruns, rview, wpc, batch, cur, results, cbuf, rbuf, fpc, ftx,
                   fres, nsent, napplied>>

\* View::new_from_other(&self, at): the view w is built from the view v.
NewFromOther(v, w, new_at) ==
    /\ v \in views
    /\ w \notin views
    /\ views' = views \cup {w}
    /\ at' = [at EXCEPT ![w] = new_at]
    \* self.pool.deep_clone(): a store of its own, holding a copy
    /\ pool' = [pool EXCEPT ![w] = w]
    /\ stores' = [stores EXCEPT ![w] = stores[pool[v]]]
    \* revalidation_worker_channels: Mutex::from(None)
    /\ slot' = [slot EXCEPT ![w] = NoSlot]
    /\ purged' = [purged EXCEPT ![w] = {}]
    /\ last' = [op |-> "new_from_other", view |-> w, at |-> new_at]
    /\ banned' = [banned EXCEPT ![w] = banned[pool[v]]]
    /\ UNCHANGED <<obs, snap>>
    /\ UNCHANGED <<nruns, rview, wpc, batch, cur, results, cbuf, rbuf, fpc, ftx,
                   fres, nsent, napplied>>

\* ------------------------------------------------------- view: submission
\* SubmitLocal without the ok_or_else on the block number: an unresolved
\* number is used as it comes.
SubmitLocal_NoResolve(v, t, o) ==
    /\ v \in views
    /\ o \in ValidateTransaction(at[v].hash, t)
    /\ LET tx_hash == HashOf(t)
           number == BlockIdToNumber(at[v].hash)
           validated == ValidAt(number, tx_hash, "Local", t, o.validity)
           inserted == o.kind = "Valid" /\ StoreOf(v)[t] = Absent
           result == IF o.kind = "Error" THEN Err("ApiError")
                     ELSE IF o.kind = "Invalid" THEN Err("InvalidTransaction")
                     ELSE IF o.kind = "Unknown" THEN Err("UnknownTransaction")
                     ELSE StoreSubmitResult(StoreOf(v), tx_hash)
       IN  /\ stores' = IF o.kind = "Valid"
                        THEN [stores EXCEPT
                                ![pool[v]] = StoreSubmit(@, tx_hash, validated)]
                        ELSE stores
           /\ purged' = IF inserted
                        THEN [x \in Views |->
                                IF pool[x] = pool[v] THEN purged[x] \ {t}
                                ELSE purged[x]]
                        ELSE purged
           /\ last' = IF obs
                      THEN [op |-> "submit_local", view |-> v,
                            arg |-> [data |-> t, answer |-> o], ret |-> result]
                      ELSE NoCall
    /\ UNCHANGED <<obs, banned, snap>>
    /\ UNCHANGED <<views, at, pool, slot, nruns, rview, wpc, batch, cur, results,
                   cbuf, rbuf, fpc, ftx, fres, nsent, napplied>>

\* SubmitLocal resolving the block number before it validates.
SubmitLocal_ResolveFirst(v, t, o) ==
    /\ v \in views
    /\ o \in ValidateTransaction(at[v].hash, t)
    /\ LET tx_hash == HashOf(t)
           number == BlockIdToNumber(at[v].hash)
           validated == ValidAt(number, tx_hash, "Local", t, o.validity)
           inserted == o.kind = "Valid" /\ number # 0 /\ StoreOf(v)[t] = Absent
           result == IF number = 0 THEN Err("InvalidBlockId")
                     ELSE IF o.kind = "Error" THEN Err("ApiError")
                     ELSE IF o.kind = "Invalid" THEN Err("InvalidTransaction")
                     ELSE IF o.kind = "Unknown" THEN Err("UnknownTransaction")
                     ELSE StoreSubmitResult(StoreOf(v), tx_hash)
       IN  /\ stores' = IF o.kind = "Valid" /\ number # 0
                        THEN [stores EXCEPT
                                ![pool[v]] = StoreSubmit(@, tx_hash, validated)]
                        ELSE stores
           /\ purged' = IF inserted
                        THEN [x \in Views |->
                                IF pool[x] = pool[v] THEN purged[x] \ {t}
                                ELSE purged[x]]
                        ELSE purged
           /\ last' = IF obs
                      THEN [op |-> "submit_local", view |-> v,
                            arg |-> [data |-> t, answer |-> o], ret |-> result]
                      ELSE NoCall
    /\ UNCHANGED <<obs, banned, snap>>
    /\ UNCHANGED <<views, at, pool, slot, nruns, rview, wpc, batch, cur, results,
                   cbuf, rbuf, fpc, ftx, fres, nsent, napplied>>

\* View::submit_local(&self, xt), with the answer `o` of the oracle: the
\* validation and its two `?`, then the block number and its `?`, then the
\* submission to the store.
SubmitLocal(v, t, o) ==
    /\ v \in views
    /\ o \in ValidateTransaction(at[v].hash, t)
    /\ LET tx_hash == HashOf(t)
           number == BlockIdToNumber(at[v].hash)
           validated == ValidAt(number, tx_hash, "Local", t, o.validity)
           inserted == o.kind = "Valid" /\ number # 0 /\ StoreOf(v)[t] = Absent
           result == IF o.kind = "Error" THEN Err("ApiError")
                     ELSE IF o.kind = "Invalid" THEN Err("InvalidTransaction")
                     ELSE IF o.kind = "Unknown" THEN Err("UnknownTransaction")
                     ELSE IF number = 0 THEN Err("InvalidBlockId")
                     ELSE StoreSubmitResult(StoreOf(v), tx_hash)
       IN  /\ stores' = IF o.kind = "Valid" /\ number # 0
                        THEN [stores EXCEPT
                                ![pool[v]] = StoreSubmit(@, tx_hash, validated)]
                        ELSE stores
           /\ purged' = IF inserted
                        THEN [x \in Views |->
                                IF pool[x] = pool[v] THEN purged[x] \ {t}
                                ELSE purged[x]]
                        ELSE purged
           /\ last' = IF obs
                      THEN [op |-> "submit_local", view |-> v,
                            arg |-> [data |-> t, answer |-> o], ret |-> result]
                      ELSE NoCall
    /\ UNCHANGED <<obs, banned, snap>>
    /\ UNCHANGED <<views, at, pool, slot, nruns, rview, wpc, batch, cur, results,
                   cbuf, rbuf, fpc, ftx, fres, nsent, napplied>>

\* RemoveSubtree removing the one transaction and leaving its dependents.
RemoveSubtree_RootOnly(v, h) ==
    /\ v \in views
    /\ stores' = [stores EXCEPT ![pool[v]][h] = Absent]
    /\ last' = IF obs
               THEN [op |-> "remove_subtree", view |-> v, arg |-> h,
                     ret |-> [removed |-> RemovedBySubtree(StoreOf(v), h),
                              notified |-> RemovedBySubtree(StoreOf(v), h)]]
               ELSE NoCall
    /\ UNCHANGED <<obs, banned, snap>>
    /\ UNCHANGED <<views, at, pool, slot, nruns, rview, wpc, batch, cur, results,
                   cbuf, rbuf, fpc, ftx, fres, nsent, napplied, purged>>

\* View::remove_subtree(&self, tx_hash, listener_action)
RemoveSubtree(v, h) ==
    /\ v \in views
    /\ stores' = [stores EXCEPT ![pool[v]] = StoreRemoveSubtree(@, h)]
    /\ last' = IF obs
               THEN [op |-> "remove_subtree", view |-> v, arg |-> h,
                     ret |-> [removed |-> RemovedBySubtree(StoreOf(v), h),
                              notified |-> RemovedBySubtree(StoreOf(v), h)]]
               ELSE NoCall
    /\ UNCHANGED <<obs, banned, snap>>
    /\ UNCHANGED <<views, at, pool, slot, nruns, rview, wpc, batch, cur, results,
                   cbuf, rbuf, fpc, ftx, fres, nsent, napplied, purged>>

\* SubmitManyOutcome returning the submission outcomes only, the failed
\* inputs filtered out.
SubmitManyOutcome_DropsFailed(v, xs) ==
    LET out == SubmitAt(StoreOf(v), at[v], xs, <<>>)
        IsOk(r) == r.kind = "Ok"
    IN  [store |-> out.store, results |-> SelectSeq(out.results, IsOk)]

\* View::submit_many(&self, xts): the batch goes to the store's submit_at,
\* bound to the view's position.
SubmitManyOutcome(v, xs) == SubmitAt(StoreOf(v), at[v], xs, <<>>)

\* The hashes a submission inserted are no longer hashes a result purged.
Unpurge(v, hs) ==
    [x \in Views |-> IF pool[x] = pool[v] THEN purged[x] \ hs ELSE purged[x]]

SubmitMany(v, xs) ==
    /\ v \in views
    /\ \A i \in 1..Len(xs) :
          xs[i].answer \in ValidateTransaction(at[v].hash, xs[i].data)
    /\ LET out == SubmitManyOutcome(v, xs)
       IN  /\ stores' = [stores EXCEPT ![pool[v]] = out.store]
           /\ purged' = Unpurge(v, Present(out.store) \ Present(StoreOf(v)))
           /\ last' = IF obs
                      THEN [op |-> "submit_many", view |-> v, arg |-> xs,
                            ret |-> out.results]
                      ELSE NoCall
    /\ UNCHANGED <<views, at, pool, slot, nruns, rview, wpc, batch, cur, results,
                   cbuf, rbuf, fpc, ftx, fres, nsent, napplied, obs, banned,
                   snap>>

\* SubmitOne taking the local path's source tag for its transaction.
SubmitOne_AsLocal(v, x) ==
    /\ v \in views
    /\ x.answer \in ValidateTransaction(at[v].hash, x.data)
    /\ LET out == SubmitManyOutcome(v, <<[x EXCEPT !.source = "Local"]>>)
       IN  /\ out.results # <<>>
           /\ stores' = [stores EXCEPT ![pool[v]] = out.store]
           /\ purged' = Unpurge(v, Present(out.store) \ Present(StoreOf(v)))
           /\ last' = IF obs
                      THEN [op |-> "submit_one", view |-> v, arg |-> x,
                            ret |-> out.results[Len(out.results)]]
                      ELSE NoCall
    /\ UNCHANGED <<views, at, pool, slot, nruns, rview, wpc, batch, cur, results,
                   cbuf, rbuf, fpc, ftx, fres, nsent, napplied, obs, banned,
                   snap>>

\* View::submit_one(&self, source, xt): submit_many of the one pair, and the
\* last of the results it gives (pop().expect(..)).
SubmitOne(v, x) ==
    /\ v \in views
    /\ x.answer \in ValidateTransaction(at[v].hash, x.data)
    /\ LET out == SubmitManyOutcome(v, <<x>>)
       IN  /\ out.results # <<>>
           /\ stores' = [stores EXCEPT ![pool[v]] = out.store]
           /\ purged' = Unpurge(v, Present(out.store) \ Present(StoreOf(v)))
           /\ last' = IF obs
                      THEN [op |-> "submit_one", view |-> v, arg |-> x,
                            ret |-> out.results[Len(out.results)]]
                      ELSE NoCall
    /\ UNCHANGED <<views, at, pool, slot, nruns, rview, wpc, batch, cur, results,
                   cbuf, rbuf, fpc, ftx, fres, nsent, napplied, obs, banned,
                   snap>>

\* View::is_imported(&self, tx_hash)
IGNORE_BANNED == FALSE

\* IsImported taking the registered channels out of the slot on its way.
IsImported_TakesChannels(v, h) ==
    /\ v \in views
    /\ obs
    /\ slot' = [slot EXCEPT ![v] = NoSlot]
    /\ last' = [op |-> "is_imported", view |-> v, arg |-> h,
                ret |-> CheckIsKnown(StoreOf(v), banned[pool[v]], h,
                                     IGNORE_BANNED).kind # "Ok"]
    /\ UNCHANGED <<views, at, pool, stores, nruns, rview, wpc, batch, cur,
                   results, cbuf, rbuf, fpc, ftx, fres, nsent, napplied, purged,
                   obs, banned, snap>>

\* View::is_imported(&self, tx_hash): whether check_is_known reports the hash.
IsImported(v, h) ==
    /\ v \in views
    /\ obs
    /\ last' = [op |-> "is_imported", view |-> v, arg |-> h,
                ret |-> CheckIsKnown(StoreOf(v), banned[pool[v]], h,
                                     IGNORE_BANNED).kind # "Ok"]
    /\ UNCHANGED <<views, at, pool, stores, slot, nruns, rview, wpc, batch, cur,
                   results, cbuf, rbuf, fpc, ftx, fres, nsent, napplied, purged,
                   obs, banned, snap>>

\* ValidatedPool::status: the counts of the ready and of the future
\* transactions.
PoolStatus(st) ==
    [ready |-> Cardinality(Ready(st)),
     future |-> Cardinality(Present(st) \ Ready(st))]

\* View::status(&self)
Status(v) ==
    /\ v \in views
    /\ obs
    /\ last' = [op |-> "status", view |-> v, arg |-> 0,
                ret |-> PoolStatus(StoreOf(v))]
    /\ UNCHANGED <<views, at, pool, stores, slot, nruns, rview, wpc, batch, cur,
                   results, cbuf, rbuf, fpc, ftx, fres, nsent, napplied, purged,
                   obs, banned, snap>>

\* ------------------------------------------------- revalidation: the view
\* StartBackgroundRevalidation leaving registered channels in place: the
\* local halves of the new run are the ones that are dropped.
StartBackgroundRevalidation_KeepsRegistered(v) ==
    /\ v \in views
    /\ nruns < MaxRuns
    /\ LET r == nruns + 1
       IN  /\ nruns' = r
           /\ rview' = [rview EXCEPT ![r] = v]
           /\ slot' = IF slot[v].run # 0 THEN slot
                      ELSE [slot EXCEPT ![v] = [run |-> r, tx |-> TRUE]]
           /\ wpc' = [wpc EXCEPT ![r] = "queued"]
    /\ last' = NoCall
    /\ UNCHANGED <<obs, banned, snap>>
    /\ UNCHANGED <<views, at, pool, stores, batch, cur, results, cbuf, rbuf, fpc,
                   ftx, fres, nsent, napplied, purged>>

\* View::start_background_revalidation(view, revalidation_queue): fresh
\* channels, the local halves registered over whatever the slot held, the
\* remote halves handed to the queue.
StartBackgroundRevalidation(v) ==
    /\ v \in views
    /\ nruns < MaxRuns
    /\ LET r == nruns + 1
       IN  /\ nruns' = r
           /\ rview' = [rview EXCEPT ![r] = v]
           /\ slot' = [slot EXCEPT ![v] = [run |-> r, tx |-> TRUE]]
           /\ wpc' = [wpc EXCEPT ![r] = "queued"]
    /\ last' = NoCall
    /\ UNCHANGED <<obs, banned, snap>>
    /\ UNCHANGED <<views, at, pool, stores, batch, cur, results, cbuf, rbuf, fpc,
                   ftx, fres, nsent, napplied, purged>>

\* The precondition the callers keep.  Maintenance is one sequence of calls:
\* finish_revalidation on the current view, new_from_other, then
\* start_background_revalidation; so a run is started only when every view
\* is Idle and every earlier finish_revalidation call has returned.
Serialized ==
    /\ \A v \in Views : slot[v].run = 0
    /\ \A r \in Runs : fpc[r] \in {"none", "ret"}

\* FinishRevalidation reading the registered channels without taking them
\* out of the slot.
FinishRevalidation_NoTake(v) ==
    /\ v \in views
    /\ IF slot[v].run = 0
       THEN /\ last' = [op |-> "finish_revalidation", view |-> v, at |-> NoAt]
            /\ UNCHANGED <<fpc, ftx>>
       ELSE /\ fpc' = [fpc EXCEPT ![slot[v].run] = "taken"]
            /\ ftx' = [ftx EXCEPT ![slot[v].run] = slot[v].tx]
            /\ last' = NoCall
    /\ UNCHANGED <<views, at, pool, stores, slot, nruns, rview, wpc, batch, cur,
                   results, cbuf, rbuf, fres, nsent, napplied, purged, obs,
                   banned, snap>>

\* View::finish_revalidation, up to the take of the registered channels: with
\* none registered the call returns at once.
FinishRevalidation(v) ==
    /\ v \in views
    /\ IF slot[v].run = 0
       THEN /\ last' = [op |-> "finish_revalidation", view |-> v, at |-> NoAt]
            /\ UNCHANGED <<slot, fpc, ftx>>
       ELSE /\ fpc' = [fpc EXCEPT ![slot[v].run] = "taken"]
            /\ ftx' = [ftx EXCEPT ![slot[v].run] = slot[v].tx]
            /\ slot' = [slot EXCEPT ![v] = NoSlot]
            /\ last' = NoCall
    /\ UNCHANGED <<views, at, pool, stores, nruns, rview, wpc, batch, cur, results,
                   cbuf, rbuf, fres, nsent, napplied, purged, obs, banned, snap>>

\* finish_revalidation: the cancellation send, when a sender is present.  The
\* send fails, and the failure is only logged, when the worker has dropped
\* its receiver.
FinishSendRequest(r) ==
    /\ fpc[r] = "taken"
    /\ cbuf' = [cbuf EXCEPT ![r] = IF ftx[r] /\ WorkerAlive(r) THEN 1 ELSE @]
    /\ ftx' = [ftx EXCEPT ![r] = FALSE]
    /\ fpc' = [fpc EXCEPT ![r] = "recv"]
    /\ last' = NoCall
    /\ UNCHANGED <<obs, banned, snap>>
    /\ UNCHANGED <<views, at, pool, stores, slot, nruns, rview, wpc, batch, cur,
                   results, rbuf, fres, nsent, napplied, purged>>

\* ApplyResult with remove_invalid moved under the revalidated_len > 0 test.
ApplyResult_RemoveUnderTest(st, res) ==
    IF Present(res.revalidated) # {}
    THEN Resubmit(RemoveInvalid(st, res.invalid_hashes), res.revalidated)
    ELSE st

\* finish_revalidation: what applying a received result does to the store.
ApplyResult(st, res) ==
    LET removed == RemoveInvalid(st, res.invalid_hashes)
    IN  IF Present(res.revalidated) # {}
        THEN Resubmit(removed, res.revalidated)
        ELSE removed

Range(s) == {s[i] : i \in 1..Len(s)}

\* FinishRecv with try_recv() in place of recv().await: an empty buffer
\* gives None at once, whatever the worker is doing.
FinishRecv_TryRecv(r) ==
    /\ fpc[r] = "recv"
    /\ \/ /\ rbuf[r] # <<>>
          /\ LET res == Head(rbuf[r])
                 v == rview[r]
             IN  /\ stores' = [stores EXCEPT ![pool[v]] = ApplyResult(@, res)]
                 /\ purged' = [x \in Views |->
                                 IF pool[x] = pool[v]
                                 THEN (purged[x] \cup Range(res.invalid_hashes))
                                        \ Present(res.revalidated)
                                 ELSE purged[x]]
                 /\ fres' = [fres EXCEPT ![r] = <<res>>]
          /\ rbuf' = [rbuf EXCEPT ![r] = <<>>]
          /\ napplied' = [napplied EXCEPT ![r] = @ + 1]
       \/ /\ rbuf[r] = <<>>
          /\ fres' = [fres EXCEPT ![r] = <<>>]
          /\ UNCHANGED <<stores, purged, rbuf, napplied>>
    /\ fpc' = [fpc EXCEPT ![r] = "applied"]
    /\ last' = NoCall
    /\ UNCHANGED <<obs, banned, snap>>
    /\ UNCHANGED <<views, at, pool, slot, nruns, rview, wpc, batch, cur, results,
                   cbuf, ftx, nsent>>

\* FinishRecv that waits until a result arrives, a closed channel included.
FinishRecv_WaitForSome(r) ==
    /\ fpc[r] = "recv"
    /\ rbuf[r] # <<>>
    /\ LET res == Head(rbuf[r])
           v == rview[r]
       IN  /\ stores' = [stores EXCEPT ![pool[v]] = ApplyResult(@, res)]
           /\ purged' = [x \in Views |->
                           IF pool[x] = pool[v]
                           THEN (purged[x] \cup Range(res.invalid_hashes))
                                  \ Present(res.revalidated)
                           ELSE purged[x]]
           /\ fres' = [fres EXCEPT ![r] = <<res>>]
    /\ rbuf' = [rbuf EXCEPT ![r] = <<>>]
    /\ napplied' = [napplied EXCEPT ![r] = @ + 1]
    /\ fpc' = [fpc EXCEPT ![r] = "applied"]
    /\ last' = NoCall
    /\ UNCHANGED <<obs, banned, snap>>
    /\ UNCHANGED <<views, at, pool, slot, nruns, rview, wpc, batch, cur, results,
                   cbuf, ftx, nsent>>

\* finish_revalidation: revalidation_result_rx.recv().await, and the
\* application of the result when there is one.  recv() gives None once the
\* worker's sender is gone and the buffer is empty.
FinishRecv(r) ==
    /\ fpc[r] = "recv"
    /\ \/ /\ rbuf[r] # <<>>
          /\ LET res == Head(rbuf[r])
                 v == rview[r]
             IN  /\ stores' = [stores EXCEPT ![pool[v]] = ApplyResult(@, res)]
                 /\ purged' = [x \in Views |->
                                 IF pool[x] = pool[v]
                                 THEN (purged[x] \cup Range(res.invalid_hashes))
                                        \ Present(res.revalidated)
                                 ELSE purged[x]]
                 /\ fres' = [fres EXCEPT ![r] = <<res>>]
          /\ rbuf' = [rbuf EXCEPT ![r] = <<>>]
          /\ napplied' = [napplied EXCEPT ![r] = @ + 1]
       \/ /\ rbuf[r] = <<>>
          /\ ~WorkerAlive(r)
          /\ fres' = [fres EXCEPT ![r] = <<>>]
          /\ UNCHANGED <<stores, purged, rbuf, napplied>>
    /\ fpc' = [fpc EXCEPT ![r] = "applied"]
    /\ last' = NoCall
    /\ UNCHANGED <<obs, banned, snap>>
    /\ UNCHANGED <<views, at, pool, slot, nruns, rview, wpc, batch, cur, results,
                   cbuf, ftx, nsent>>

\* finish_revalidation returns.
FinishReturn(r) ==
    /\ fpc[r] = "applied"
    /\ fpc' = [fpc EXCEPT ![r] = "ret"]
    /\ fres' = [fres EXCEPT ![r] = <<>>]
    /\ last' = NoCall
    /\ UNCHANGED <<obs, banned, snap>>
    /\ UNCHANGED <<views, at, pool, stores, slot, nruns, rview, wpc, batch, cur,
                   results, cbuf, rbuf, ftx, nsent, napplied, purged>>

\* --------------------------------------------- revalidation: the worker
\* QueueRun snapshotting every transaction the store holds, the future ones
\* included.
QueueRun_AllHeld(r) ==
    /\ wpc[r] = "queued"
    /\ wpc' = [wpc EXCEPT ![r] = "loop"]
    /\ LET st == StoreOf(rview[r])
           all == [h \in 1..MaxTx |->
                     [hash |-> h, source |-> st[h].source, data |-> st[h].data]]
           Held(x) == st[x.hash] # Absent
       IN  /\ batch' = [batch EXCEPT ![r] = SelectSeq(all, Held)]
           /\ snap' = [snap EXCEPT ![r] = SelectSeq(all, Held)]
    /\ last' = NoCall
    /\ UNCHANGED <<obs, banned>>
    /\ UNCHANGED <<views, at, pool, stores, slot, nruns, rview, cur, results, cbuf,
                   rbuf, fpc, ftx, fres, nsent, napplied, purged>>

\* RevalidationQueue::revalidate_view: the queue runs View::revalidate, which
\* snapshots the ready set into its batch ...
QueueRun(r) ==
    /\ wpc[r] = "queued"
    /\ wpc' = [wpc EXCEPT ![r] = "loop"]
    /\ batch' = [batch EXCEPT ![r] = ReadySeq(StoreOf(rview[r]), 1)]
    /\ snap' = [snap EXCEPT ![r] = ReadySeq(StoreOf(rview[r]), 1)]
    /\ last' = NoCall
    /\ UNCHANGED <<obs, banned>>
    /\ UNCHANGED <<views, at, pool, stores, slot, nruns, rview, cur, results, cbuf,
                   rbuf, fpc, ftx, fres, nsent, napplied, purged>>

\* ... or drops the request together with the worker-side endpoints.
QueueDrop(r) ==
    /\ wpc[r] = "queued"
    /\ wpc' = [wpc EXCEPT ![r] = "dropped"]
    /\ cbuf' = [cbuf EXCEPT ![r] = 0]
    /\ last' = NoCall
    /\ UNCHANGED <<obs, banned, snap>>
    /\ UNCHANGED <<views, at, pool, stores, slot, nruns, rview, batch, cur, results,
                   rbuf, fpc, ftx, fres, nsent, napplied, purged>>

\* WorkerCancelled without the `break`: the request is received and the loop
\* goes on.
WorkerCancelled_NoBreak(r) ==
    /\ wpc[r] \in {"loop", "validating"}
    /\ CancelReady(r)
    /\ cbuf' = [cbuf EXCEPT ![r] = 0]
    /\ wpc' = [wpc EXCEPT ![r] = "loop"]
    /\ cur' = [cur EXCEPT ![r] = NoTx]
    /\ last' = NoCall
    /\ UNCHANGED <<obs, banned, snap>>
    /\ UNCHANGED <<views, at, pool, stores, slot, nruns, rview, batch, results,
                   rbuf, fpc, ftx, fres, nsent, napplied, purged>>

\* WorkerCancelled with `return` in place of `break`: the cancelled worker
\* leaves revalidate without building or sending a result.
WorkerCancelled_Return(r) ==
    /\ wpc[r] \in {"loop", "validating"}
    /\ CancelReady(r)
    /\ wpc' = [wpc EXCEPT ![r] = "done"]
    /\ cbuf' = [cbuf EXCEPT ![r] = 0]
    /\ batch' = [batch EXCEPT ![r] = <<>>]
    /\ cur' = [cur EXCEPT ![r] = NoTx]
    /\ results' = [results EXCEPT ![r] = <<>>]
    /\ last' = NoCall
    /\ UNCHANGED <<obs, banned, snap>>
    /\ UNCHANGED <<views, at, pool, stores, slot, nruns, rview, rbuf, fpc, ftx,
                   fres, nsent, napplied, purged>>

\* WorkerCancelled recording the validation it abandons as a failed one.
WorkerCancelled_RecordsInFlight(r) ==
    /\ wpc[r] \in {"loop", "validating"}
    /\ CancelReady(r)
    /\ wpc' = [wpc EXCEPT ![r] = "send"]
    /\ cbuf' = [cbuf EXCEPT ![r] = 0]
    /\ batch' = [batch EXCEPT ![r] = <<>>]
    /\ results' = [results EXCEPT
                     ![r] = IF cur[r] = NoTx THEN @
                            ELSE Append(@, [res |-> [kind |-> "Error",
                                                     validity |-> "-"],
                                            hash |-> cur[r].hash,
                                            tx |-> cur[r]])]
    /\ last' = NoCall
    /\ UNCHANGED <<obs, banned, snap>>
    /\ UNCHANGED <<views, at, pool, stores, slot, nruns, rview, cur, rbuf,
                   fpc, ftx, fres, nsent, napplied, purged>>

\* revalidate, select! branch 1: finish_revalidation_request_rx.recv()
\* completes (a message, or None from a closed channel) and the loop breaks.
\* The other branch's future is dropped with it, a validation in flight
\* included: `cur` stays the transaction whose validation was abandoned.
WorkerCancelled(r) ==
    /\ wpc[r] \in {"loop", "validating"}
    /\ CancelReady(r)
    /\ wpc' = [wpc EXCEPT ![r] = "send"]
    /\ cbuf' = [cbuf EXCEPT ![r] = 0]
    /\ batch' = [batch EXCEPT ![r] = <<>>]
    /\ last' = NoCall
    /\ UNCHANGED <<obs, banned, snap>>
    /\ UNCHANGED <<views, at, pool, stores, slot, nruns, rview, cur, results, rbuf,
                   fpc, ftx, fres, nsent, napplied, purged>>

\* revalidate, select! branch 2: batch_iter.next() is Some(tx) and
\* api.validate_transaction(..) is called.
WorkerValidate(r) ==
    /\ wpc[r] = "loop"
    /\ batch[r] # <<>>
    /\ cur' = [cur EXCEPT ![r] = Head(batch[r])]
    /\ batch' = [batch EXCEPT ![r] = Tail(batch[r])]
    /\ wpc' = [wpc EXCEPT ![r] = "validating"]
    /\ last' = NoCall
    /\ UNCHANGED <<obs, banned, snap>>
    /\ UNCHANGED <<views, at, pool, stores, slot, nruns, rview, results, cbuf, rbuf,
                   fpc, ftx, fres, nsent, napplied, purged>>

\* revalidate, select! branch 2: the validation call returns `o` and the
\* outcome is pushed to validation_results.
WorkerValidated(r, o) ==
    /\ wpc[r] = "validating"
    /\ o \in ValidateTransaction(at[rview[r]].hash, cur[r].data)
    /\ results' = [results EXCEPT
                     ![r] = Append(@, [res |-> o, hash |-> cur[r].hash,
                                       tx |-> cur[r]])]
    /\ cur' = [cur EXCEPT ![r] = NoTx]
    /\ wpc' = [wpc EXCEPT ![r] = "loop"]
    /\ last' = NoCall
    /\ UNCHANGED <<obs, banned, snap>>
    /\ UNCHANGED <<views, at, pool, stores, slot, nruns, rview, batch, cbuf, rbuf,
                   fpc, ftx, fres, nsent, napplied, purged>>

\* FinishRevalidationLocalChannels::remove_sender
RemoveSender(ch) == [ch EXCEPT !.tx = FALSE]

\* WorkerExhausted without the call of remove_sender.
WorkerExhausted_KeepsSender(r) ==
    /\ wpc[r] = "loop"
    /\ batch[r] = <<>>
    /\ wpc' = [wpc EXCEPT ![r] = "send"]
    /\ last' = NoCall
    /\ UNCHANGED <<obs, banned, snap>>
    /\ UNCHANGED <<views, at, pool, stores, slot, nruns, rview, batch, cur,
                   results, cbuf, rbuf, fpc, ftx, fres, nsent, napplied, purged>>

\* revalidate, select! branch 2: batch_iter.next() is None; the sender of
\* whatever channels the view has registered is removed and the loop breaks.
WorkerExhausted(r) ==
    /\ wpc[r] = "loop"
    /\ batch[r] = <<>>
    /\ slot' = [slot EXCEPT
                  ![rview[r]] = IF @.run # 0 THEN RemoveSender(@) ELSE @]
    /\ wpc' = [wpc EXCEPT ![r] = "send"]
    /\ last' = NoCall
    /\ UNCHANGED <<obs, banned, snap>>
    /\ UNCHANGED <<views, at, pool, stores, nruns, rview, batch, cur, results, cbuf,
                   rbuf, fpc, ftx, fres, nsent, napplied, purged>>

NoRevalidated == [h \in Hashes |-> Absent]

\* Classify with an empty arm for the Unknown verdict: the outcome is
\* dropped.
RECURSIVE Classify_UnknownDropped(_, _, _)
Classify_UnknownDropped(vrs, number, acc) ==
    IF vrs = <<>> THEN acc
    ELSE LET x == Head(vrs)
         IN  Classify_UnknownDropped(Tail(vrs), number,
               IF x.res.kind = "Valid"
               THEN [acc EXCEPT
                       !.revalidated[x.hash] =
                          ValidAt(number, x.hash, x.tx.source, x.tx.data,
                                  x.res.validity)]
               ELSE IF x.res.kind = "Unknown" THEN acc
               ELSE [acc EXCEPT
                       !.invalid_hashes = Append(@, x.hash)])

\* revalidate: the classification of the recorded outcomes into
\* invalid_hashes and revalidated, `number` being self.at.number.
RECURSIVE Classify(_, _, _)
Classify(vrs, number, acc) ==
    IF vrs = <<>> THEN acc
    ELSE LET x == Head(vrs)
         IN  Classify(Tail(vrs), number,
               IF x.res.kind = "Valid"
               THEN [acc EXCEPT
                       !.revalidated[x.hash] =
                          ValidAt(number, x.hash, x.tx.source, x.tx.data,
                                  x.res.validity)]
               ELSE [acc EXCEPT
                       !.invalid_hashes = Append(@, x.hash)])

RevalidationResult(vrs, number) ==
    Classify(vrs, number,
             [invalid_hashes |-> <<>>, revalidated |-> NoRevalidated])

\* WorkerSend that waits for a receiver instead of giving up on a closed
\* channel.
WorkerSend_WaitForReceiver(r) ==
    /\ wpc[r] = "send"
    /\ ReceiverAlive(r)
    /\ rbuf' = [rbuf EXCEPT
                  ![r] = <<RevalidationResult(results[r], at[rview[r]].number)>>]
    /\ nsent' = [nsent EXCEPT ![r] = @ + 1]
    /\ wpc' = [wpc EXCEPT ![r] = "done"]
    /\ results' = [results EXCEPT ![r] = <<>>]
    /\ cur' = [cur EXCEPT ![r] = NoTx]
    /\ cbuf' = [cbuf EXCEPT ![r] = 0]
    /\ snap' = [snap EXCEPT ![r] = <<>>]
    /\ last' = NoCall
    /\ UNCHANGED <<obs, banned>>
    /\ UNCHANGED <<views, at, pool, stores, slot, nruns, rview, batch, fpc, ftx,
                   fres, napplied, purged>>

\* revalidate: the result is built and sent; a failed send (the receiver is
\* gone) is only logged.  revalidate returns.
WorkerSend(r) ==
    /\ wpc[r] = "send"
    /\ IF ReceiverAlive(r)
       THEN /\ rbuf' = [rbuf EXCEPT
                          ![r] = <<RevalidationResult(results[r],
                                                      at[rview[r]].number)>>]
            /\ nsent' = [nsent EXCEPT ![r] = @ + 1]
       ELSE UNCHANGED <<rbuf, nsent>>
    /\ wpc' = [wpc EXCEPT ![r] = "done"]
    /\ results' = [results EXCEPT ![r] = <<>>]
    /\ cur' = [cur EXCEPT ![r] = NoTx]
    /\ cbuf' = [cbuf EXCEPT ![r] = 0]
    /\ snap' = [snap EXCEPT ![r] = <<>>]
    /\ last' = NoCall
    /\ UNCHANGED <<obs, banned>>
    /\ UNCHANGED <<views, at, pool, stores, slot, nruns, rview, batch, fpc, ftx,
                   fres, napplied, purged>>

\* ---------------------------------------------------------- specifications
\* Every answer the oracle can give.
Answers == UNION {ValidateTransaction(b, t) : b \in BlockHashes, t \in Hashes}

Worker(r) ==
    \/ WorkerCancelled(r)
    \/ WorkerValidate(r)
    \/ \E o \in Answers : WorkerValidated(r, o)
    \/ WorkerExhausted(r)
    \/ WorkerSend(r)

Queue(r) == QueueRun(r) \/ QueueDrop(r)

Finishing(r) == FinishSendRequest(r) \/ FinishRecv(r) \/ FinishReturn(r)

Finish(v) == FinishRevalidation(v)

Submit(v) ==
    \/ \E t \in Hashes : \E o \in Answers : SubmitLocal(v, t, o)
    \/ \E h \in Hashes : RemoveSubtree(v, h)

\* One view, its submissions and its revalidation runs.  The callers
\* serialize maintenance: a revalidation is only started when Serialized
\* holds.
Next ==
    \/ \E v \in views : Submit(v)
    \/ \E v \in views : Finish(v)
    \/ \E v \in views : Serialized /\ StartBackgroundRevalidation(v)
    \/ \E r \in Runs : Queue(r)
    \/ \E r \in Runs : Worker(r)
    \/ \E r \in Runs : Finishing(r)

Spec == Init /\ [][Next]_vars

\* The same with the successor view: new_from_other may be called at any
\* moment.  A finish_revalidation call on an Idle view is left out here: it
\* changes nothing of the program's state.
NextClone ==
    \/ \E new_at \in NewAts : NewFromOther(1, 2, new_at)
    \/ \E v \in views : Submit(v)
    \/ \E v \in views : slot[v].run # 0 /\ Finish(v)
    \/ \E v \in views : Serialized /\ StartBackgroundRevalidation(v)
    \/ \E r \in Runs : Queue(r)
    \/ \E r \in Runs : Worker(r)
    \/ \E r \in Runs : Finishing(r)

SpecClone == Init /\ [][NextClone]_vars

\* start_background_revalidation itself checks nothing: the callers that do
\* not serialize.  A finish_revalidation call on an Idle view is left out.
NextUnguarded ==
    \/ \E v \in views : Submit(v)
    \/ \E v \in views : slot[v].run # 0 /\ Finish(v)
    \/ \E v \in views : StartBackgroundRevalidation(v)
    \/ \E r \in Runs : Queue(r)
    \/ \E r \in Runs : Worker(r)
    \/ \E r \in Runs : Finishing(r)

SpecUnguarded == Init /\ [][NextUnguarded]_vars

\* The scheduling the liveness claims assume: the queue runs or drops what
\* it was handed, a worker that can take a step of revalidate takes one
\* (every oracle call returns), and a finish_revalidation call that can go
\* on goes on.  Nothing obliges a caller to call finish_revalidation.
FairSpec ==
    /\ Spec
    /\ \A r \in Runs : WF_vars(Queue(r))
    /\ \A r \in Runs : WF_vars(Worker(r))
    /\ \A r \in Runs : WF_vars(Finishing(r))

\* The same for callers that do not serialize, with no assumption on the
\* finish_revalidation calls.
FairSpecUnguarded ==
    /\ SpecUnguarded
    /\ \A r \in Runs : WF_vars(Queue(r))
    /\ \A r \in Runs : WF_vars(Worker(r))

\* Termination of revalidate does not depend on which verdict the oracle
\* gives, only on whether the transaction lands in the revalidated or in the
\* invalid list: one verdict of each class is enough for it.
TerminationAnswers == {o \in Answers : o.kind \in {"Valid", "Invalid"}}

WorkerTermination(r) ==
    \/ WorkerCancelled(r)
    \/ WorkerValidate(r)
    \/ \E o \in TerminationAnswers : WorkerValidated(r, o)
    \/ WorkerExhausted(r)
    \/ WorkerSend(r)

NextTermination ==
    \/ \E v \in views : Submit(v)
    \/ \E v \in views : slot[v].run # 0 /\ Finish(v)
    \/ \E v \in views : StartBackgroundRevalidation(v)
    \/ \E r \in Runs : Queue(r)
    \/ \E r \in Runs : WorkerTermination(r)
    \/ \E r \in Runs : Finishing(r)

SpecTermination == Init /\ [][NextTermination]_vars

\* Callers that do not serialize, no assumption on the finish_revalidation
\* calls, and the two classes of verdict.
FairSpecTermination ==
    /\ SpecTermination
    /\ \A r \in Runs : WF_vars(Queue(r))
    /\ \A r \in Runs : WF_vars(WorkerTermination(r))

\* The calls of one view with what they return.  The view is built by
\* View::new at any of the positions, one of them unresolvable, over a store
\* with any set of banned hashes.
Ats == {FirstAt} \cup NewAts

MaxBatch == 2

Batches == UNION {[1..n -> Inputs] : n \in 0..MaxBatch}

InitCalls ==
    /\ views = {1}
    /\ at \in {[v \in Views |-> IF v = 1 THEN a ELSE NoAt] : a \in Ats}
    /\ pool = [v \in Views |-> IF v = 1 THEN 1 ELSE 0]
    /\ stores = [s \in StoreIds |-> EmptyStore]
    /\ slot = [v \in Views |-> NoSlot]
    /\ nruns = 0
    /\ rview = [r \in Runs |-> 0]
    /\ wpc = [r \in Runs |-> "none"]
    /\ batch = [r \in Runs |-> <<>>]
    /\ cur = [r \in Runs |-> NoTx]
    /\ results = [r \in Runs |-> <<>>]
    /\ cbuf = [r \in Runs |-> 0]
    /\ rbuf = [r \in Runs |-> <<>>]
    /\ fpc = [r \in Runs |-> "none"]
    /\ ftx = [r \in Runs |-> FALSE]
    /\ fres = [r \in Runs |-> <<>>]
    /\ nsent = [r \in Runs |-> 0]
    /\ napplied = [r \in Runs |-> 0]
    /\ purged = [v \in Views |-> {}]
    /\ last = NoCall
    /\ obs = TRUE
    /\ banned \in {[s \in StoreIds |-> IF s = 1 THEN b ELSE {}] :
                     b \in SUBSET Hashes}
    /\ snap = [r \in Runs |-> <<>>]

Import(v) ==
    \/ \E xs \in Batches : SubmitMany(v, xs)
    \/ \E x \in Inputs : SubmitOne(v, x)

Query(v) == \E h \in Hashes : IsImported(v, h)

NextCalls ==
    \/ \E v \in views : Submit(v)
    \/ \E v \in views : Import(v)
    \/ \E v \in views : Query(v)

SpecCalls == InitCalls /\ [][NextCalls]_vars

\* Batch submissions beside one revalidation run of the view.
InitBatch == InitCalls /\ at[1] = FirstAt /\ banned[1] = {}

NextBatch ==
    \/ \E v \in views : \E xs \in Batches : SubmitMany(v, xs)
    \/ \E v \in views : nruns = 0 /\ StartBackgroundRevalidation(v)
    \/ \E v \in views : slot[v].run # 0 /\ Finish(v)
    \/ \E r \in Runs : Queue(r)
    \/ \E r \in Runs : Worker(r)
    \/ \E r \in Runs : Finishing(r)

SpecBatch == InitBatch /\ [][NextBatch]_vars

\* Every call of one view beside one revalidation run of it.  What a call
\* does to the channels depends neither on the length of a batch nor on the
\* verdicts the worker gets: the batches of at most one pair and the two
\* classes of verdict are taken.
FrameBatches == {xs \in Batches : Len(xs) <= 1}

NextFrame ==
    \/ \E v \in views : Submit(v)
    \/ \E v \in views : \E xs \in FrameBatches : SubmitMany(v, xs)
    \/ \E v \in views : \E x \in Inputs : SubmitOne(v, x)
    \/ \E v \in views : Query(v)
    \/ \E v \in views : Status(v)
    \/ \E v \in views : nruns = 0 /\ StartBackgroundRevalidation(v)
    \/ \E v \in views : slot[v].run # 0 /\ Finish(v)
    \/ \E r \in Runs : Queue(r)
    \/ \E r \in Runs : WorkerTermination(r)
    \/ \E r \in Runs : Finishing(r)

SpecFrame == InitBatch /\ [][NextFrame]_vars

\* ------------------------------------------------------------------ claims
\* The step of finish_revalidation in which recv() completes for run r.
RecvStep(r) == fpc[r] = "recv" /\ fpc'[r] = "applied"

\* C1: when finish_revalidation gets past its recv(), either no result was
\* received and the store is as it was, or a result was received and every
\* hash of invalid_hashes is absent from the store while every hash of
\* revalidated is present in the form the run produced: stamped with the
\* view's block number and carrying the verdict computed at the view's block.
C1_AppliedOrUnchanged ==
    [][\A r \in Runs :
         RecvStep(r) =>
           LET v == rview[r]
               st == stores'[pool[v]]
           IN  IF fres'[r] = <<>>
               THEN stores' = stores
               ELSE LET res == fres'[r][1]
                    IN  /\ \A h \in Range(res.invalid_hashes) : st[h] = Absent
                        /\ \A h \in Present(res.revalidated) :
                              /\ st[h] = res.revalidated[h]
                              /\ st[h].num = at[v].number
                              /\ st[h].validity = at[v].hash]_vars

\* A run ended without a result, and a later run's result, holding both an
\* invalid and a revalidated hash, has just been applied.
C1_Witness ==
    \E r1, r2 \in Runs :
       /\ fpc[r1] = "ret" /\ napplied[r1] = 0
       /\ fpc[r2] = "applied" /\ fres[r2] # <<>>
       /\ fres[r2][1].invalid_hashes # <<>>
       /\ Present(fres[r2][1].revalidated) # {}

\* The runs of view v whose worker is scheduled or executing revalidate.
Outstanding(v) == {r \in Runs : rview[r] = v /\ WorkerAlive(r)}

\* The runs of view v whose view-side channel pair exists, registered in the
\* slot or held by the finish_revalidation call that took it.
LocalPairs(v) == {r \in Runs : rview[r] = v /\ ReceiverAlive(r)}

\* C2: with callers that serialize maintenance, a view has at most one run
\* whose worker is scheduled or executing revalidate, and at most one
\* view-side channel pair.
C2_AtMostOneOutstanding ==
    \A v \in Views :
       /\ Cardinality(Outstanding(v)) <= 1
       /\ Cardinality(LocalPairs(v)) <= 1

\* A second run of the same view is executing after the first was finished.
C2_Witness ==
    \E r1, r2 \in Runs :
       /\ r1 # r2 /\ rview[r1] = 1 /\ rview[r2] = 1
       /\ fpc[r1] = "ret" /\ wpc[r1] = "done"
       /\ wpc[r2] = "validating" /\ slot[1].run = r2

\* C6: a run's worker sends at most one result and sends one whenever
\* revalidate runs to its end, cancelled or not; a result is applied at most
\* once and only if it was sent; and once the finish_revalidation call that
\* took the run's channels is past its recv(), a sent result has been applied.
C6_ResultOnce ==
    \A r \in Runs :
       /\ nsent[r] <= 1
       /\ napplied[r] <= nsent[r]
       /\ wpc[r] = "done" => nsent[r] = 1
       /\ (fpc[r] \in {"applied", "ret"} /\ nsent[r] = 1) => napplied[r] = 1
       /\ Len(rbuf[r]) = nsent[r] - napplied[r]

\* The result of a run has been applied by one finish_revalidation call,
\* which has not returned yet, while a second call on the same view found no
\* channels.
C6_Witness ==
    \E r \in Runs :
       /\ fpc[r] = "applied" /\ nsent[r] = 1 /\ napplied[r] = 1
       /\ fres[r] # <<>>
       /\ last = [op |-> "finish_revalidation", view |-> rview[r], at |-> NoAt]

NoopCall(v) == [op |-> "finish_revalidation", view |-> v, at |-> NoAt]

\* C7: a finish_revalidation call that finds no channels registered changes
\* nothing: no slot, no channel buffer, no store, no position of a worker or
\* of another finish_revalidation call; and the channels a call has taken are
\* no longer registered, so that a later or concurrent call is such a call.
C7_Idempotent ==
    [][/\ \A v \in Views :
            (last' = NoopCall(v) /\ last # NoopCall(v)) =>
               /\ slot[v].run = 0
               /\ UNCHANGED <<views, at, pool, stores, slot, nruns, rview, wpc,
                              batch, cur, results, cbuf, rbuf, fpc, ftx, fres,
                              nsent, napplied, purged>>
       /\ \A r \in Runs :
            fpc'[r] # "none" => slot'[rview'[r]].run # r]_vars

\* A call found no channels while an earlier call, which took them, is still
\* waiting for the result.
C7_Witness ==
    \E r \in Runs :
       /\ fpc[r] = "recv" /\ WorkerAlive(r)
       /\ last = NoopCall(rview[r])

\* C3: a finish_revalidation call that took the channels of a run eventually
\* returns, with no channels registered on the view, whatever the worker was
\* doing when the channels were taken.
C3_FinishReturns ==
    \A r \in Runs :
       (fpc[r] = "taken") ~> (fpc[r] = "ret" /\ slot[rview[r]].run = 0)

\* finish_revalidation has returned for a run whose request the queue
\* dropped, and waits for the result of a later run whose worker has not
\* started.
C3_Witness ==
    \E r1, r2 \in Runs :
       /\ fpc[r1] = "ret" /\ wpc[r1] = "dropped"
       /\ fpc[r2] = "recv" /\ wpc[r2] = "queued" /\ cbuf[r2] = 1

\* C4: once revalidate has begun, it returns: the loop ends and the result
\* send completes, also when no finish_revalidation call is ever made and
\* when the view-side receiver is gone.
C4_RevalidateTerminates ==
    \A r \in Runs : (wpc[r] = "loop") ~> (wpc[r] = "done")

\* One worker returned after its send failed on a dropped receiver; another
\* returned leaving its result in the buffer, no finish_revalidation call
\* having taken the channels.
C4_Witness ==
    \E r1, r2 \in Runs :
       /\ wpc[r1] = "done" /\ nsent[r1] = 0
       /\ wpc[r2] = "done" /\ rbuf[r2] # <<>> /\ fpc[r2] = "none"

\* C5 as stated: once the cancellation signal is in the channel the worker
\* begins no validation, and a validation that has begun ends with its
\* outcome recorded.
C5_StopsBeforeNextValidation ==
    [][\A r \in Runs :
         /\ (cbuf[r] = 1 /\ wpc[r] = "loop") => wpc'[r] # "validating"
         /\ wpc[r] = "validating" =>
               \/ wpc'[r] = "validating"
               \/ Len(results'[r]) = Len(results[r]) + 1]_vars

\* C5 amended: the worker that receives the cancellation signal leaves the
\* loop in that step, recording no outcome for a validation then in flight;
\* having left the loop it begins no validation and records no outcome; and
\* the transaction of an abandoned validation is in neither bucket of the
\* result.
C5_StopsWhenObserved ==
    [][\A r \in Runs :
         /\ (wpc[r] \in {"loop", "validating"} /\ cbuf[r] = 1 /\ cbuf'[r] = 0) =>
               (wpc'[r] = "send" /\ results'[r] = results[r])
         /\ wpc[r] = "send" =>
               /\ wpc'[r] \in {"send", "done"}
               /\ wpc'[r] = "send" => results'[r] = results[r]
         /\ (wpc[r] = "send" /\ wpc'[r] = "done" /\ cur[r] # NoTx
               /\ rbuf'[r] # <<>>) =>
               /\ cur[r].hash \notin Range(rbuf'[r][1].invalid_hashes)
               /\ cur[r].hash \notin Present(rbuf'[r][1].revalidated)]_vars

\* The worker left the loop on a cancellation that came during the second
\* validation of its batch.
C5_Witness ==
    \E r \in Runs :
       /\ wpc[r] = "send" /\ cur[r] # NoTx /\ results[r] # <<>>
       /\ fpc[r] = "recv"

\* The step in which new_from_other builds view 2.
CloneStep == 2 \notin views /\ 2 \in views'

\* C8: a view cloned after finish_revalidation applied a result holds none
\* of the hashes that result reported invalid, unless the source was given
\* them again in between.
C8_CloneCarriesNoInvalid ==
    [][CloneStep => \A h \in purged[1] : stores'[pool'[2]][h] = Absent]_vars

\* The view was cloned after a finish_revalidation call, which applied a
\* result with an invalid hash, had returned.
C8_Witness ==
    /\ last.op = "new_from_other"
    /\ purged[1] # {}
    /\ \E r \in Runs : rview[r] = 1 /\ fpc[r] = "ret" /\ napplied[r] = 1
    /\ Present(StoreOf(2)) # {}

\* C9: new_from_other(new_at) builds a view bound to new_at with no
\* channels registered, and leaves the source's position, its registered
\* channels and the run behind them as they were.
C9_CloneIsIdle ==
    [][CloneStep =>
         /\ at'[2] = last'.at
         /\ slot'[2] = NoSlot
         /\ at'[1] = at[1]
         /\ slot'[1] = slot[1]
         /\ UNCHANGED <<rview, wpc, batch, cur, results, cbuf, rbuf, fpc, ftx,
                        fres>>]_vars

\* The view was cloned while its worker was in the middle of a validation.
C9_Witness ==
    /\ last.op = "new_from_other"
    /\ slot[1].run # 0
    /\ wpc[slot[1].run] = "validating"
    /\ slot[2] = NoSlot
    /\ at[2] = last.at

\* A call that writes to the store of view v.
WritesStore(v) ==
    \/ Submit(v)
    \/ \E r \in Runs : rview[r] = v /\ FinishRecv(r)

\* C10: once view 2 is cloned from view 1, a submission, a subtree removal
\* or the application of a revalidation result on one of them leaves the
\* store of the other as it was: a step that changes the store of w is no
\* such call on the other view v.
C10_CloneIndependent ==
    [][\A v \in Views : \A w \in Views \ {v} :
         (views = Views /\ stores'[pool'[w]] # stores[pool[w]]) =>
            ~WritesStore(v)]_vars

\* After the clone: the source holds a transaction that a result applied to
\* the clone removed there, and the clone holds one the source lacks.
C10_Witness ==
    /\ views = Views
    /\ \E h \in purged[2] : StoreOf(1)[h] # Absent /\ StoreOf(2)[h] = Absent
    /\ \E h \in Hashes : StoreOf(2)[h] # Absent /\ StoreOf(1)[h] = Absent

\* C11: a transaction that remove_subtree removed while a run was
\* outstanding is not brought back by the run: the snapshot of a run holds
\* only transactions the store held when the run began, and between the
\* snapshot and the application of the result only remove_subtree removes
\* from the store, so the claim is that the application of a result puts
\* nothing into the store that the store did not hold just before it.
C11_RemovedStaysAbsent ==
    [][\A r \in Runs :
         RecvStep(r) =>
           \A h \in Hashes :
              stores[pool[rview[r]]][h] = Absent =>
                 stores'[pool[rview[r]]][h] = Absent]_vars

\* x is h or transitively requires h.
RECURSIVE DependsOn(_, _)
DependsOn(x, h) == x = h \/ \E y \in Requires(x) : DependsOn(y, h)

\* The step in which the call `op` returns.
Returned(op) == last'.op = op

Unresolvable(v) == BlockIdToNumber(at[v].hash) = 0

\* The error submit_local maps an answer of the oracle to.
ValidationError(o) ==
    CASE o.kind = "Invalid" -> Err("InvalidTransaction")
      [] o.kind = "Unknown" -> Err("UnknownTransaction")
      [] o.kind = "Error" -> Err("ApiError")

\* C13 as stated: submit_local on a view whose block hash does not resolve
\* returns InvalidBlockId and leaves the store as it was.
C13_UnresolvableGivesInvalidBlockId ==
    [][(Returned("submit_local") /\ Unresolvable(last'.view)) =>
          /\ last'.ret = Err("InvalidBlockId")
          /\ stores' = stores]_vars

\* C13 amended: submit_local on a view whose block hash does not resolve
\* leaves the store as it was, and returns InvalidBlockId when the oracle
\* found the transaction valid, the validation error otherwise.
C13_UnresolvableNoMutation ==
    [][(Returned("submit_local") /\ Unresolvable(last'.view)) =>
          /\ stores' = stores
          /\ last'.ret = IF last'.arg.answer.kind = "Valid"
                         THEN Err("InvalidBlockId")
                         ELSE ValidationError(last'.arg.answer)]_vars

\* submit_local has just returned InvalidBlockId on a view at an
\* unresolvable block whose store holds a transaction.
C13_Witness ==
    /\ last.op = "submit_local"
    /\ Unresolvable(last.view)
    /\ last.ret = Err("InvalidBlockId")
    /\ Present(StoreOf(last.view)) # {}

\* C14: is_imported(h) answers whether the store holds h as an imported
\* transaction, whatever the banned markings: false for a hash that is
\* banned and not imported, true for an imported hash banned or not.
C14_ImportedIffHeld ==
    [][Returned("is_imported") =>
          (last'.ret <=> StoreOf(last'.view)[last'.arg] # Absent)]_vars

\* C15: submit_many returns as many results as the batch has inputs, and
\* the i-th result is the one of the i-th input: the error of its
\* validation when the oracle did not find it valid; otherwise the outcome
\* naming its hash, the store then holding the record built from that input,
\* or AlreadyImported when the store or an earlier input of the batch had
\* the hash; whatever a revalidation run of the view is doing.
C15_OneResultPerInput ==
    [][Returned("submit_many") =>
         LET xs == last'.arg
             rs == last'.ret
             st == StoreOf(last'.view)
             st2 == stores'[pool[last'.view]]
         IN  /\ Len(rs) = Len(xs)
             /\ \A i \in 1..Len(xs) :
                  LET x == xs[i]
                      h == HashOf(x.data)
                      earlier == \E j \in 1..(i - 1) :
                                    /\ HashOf(xs[j].data) = h
                                    /\ xs[j].answer.kind = "Valid"
                  IN  IF x.answer.kind # "Valid"
                      THEN rs[i] = ValidationError(x.answer)
                      ELSE IF st[h] # Absent \/ earlier
                      THEN rs[i] = Err("AlreadyImported")
                      ELSE /\ rs[i] = Ok(h)
                           /\ st2[h].source = x.source
                           /\ st2[h].data = x.data
                           /\ st2[h].num = at[last'.view].number]_vars

\* A batch of two, the first input failing and the second imported, has
\* just been submitted while the worker of a run was validating.
C15_Witness ==
    /\ last.op = "submit_many"
    /\ Len(last.arg) = 2
    /\ last.ret[1].kind = "InvalidTransaction"
    /\ last.ret[2].kind = "Ok"
    /\ \E r \in Runs : wpc[r] = "validating" /\ rview[r] = last.view

\* C16: from the same state of the view and for the same pair, submit_one
\* and submit_many of the one-element batch return the same single result
\* and leave the same store: both give what the batch path gives for that
\* batch, submit_many as its one-element sequence and submit_one as the
\* element itself.
C16_OneIsManyOfOne ==
    [][LET v == last'.view
           x == IF Returned("submit_one") THEN last'.arg ELSE last'.arg[1]
           many == SubmitManyOutcome(v, <<x>>)
       IN  /\ Returned("submit_one") =>
                /\ Len(many.results) = 1
                /\ last'.ret = many.results[1]
                /\ stores'[pool[v]] = many.store
           /\ (Returned("submit_many") /\ Len(last'.arg) = 1) =>
                /\ last'.ret = <<many.results[1]>>
                /\ stores'[pool[v]] = many.store]_vars

\* submit_one has just been refused a transaction the store already held.
C16_Witness ==
    /\ last.op = "submit_one"
    /\ last.ret = Err("AlreadyImported")
    /\ StoreOf(last.view)[HashOf(last.arg.data)] # Absent

\* The step in which the worker of run r sends its result.
SendStep(r) == wpc[r] = "send" /\ wpc'[r] = "done" /\ rbuf'[r] # <<>>

\* The hashes of the recorded outcomes, or of a batch.
HashesOf(s) == {s[i].hash : i \in 1..Len(s)}

\* C17: in the result a worker sends, every recorded outcome is in exactly
\* one bucket: an Invalid verdict, an Unknown verdict and a failed oracle
\* call put the hash in invalid_hashes and not in revalidated; a valid
\* verdict puts it in revalidated and not in invalid_hashes, with a record
\* carrying the view's block number, the fresh verdict and the source and
\* body the transaction had in the snapshot.  invalid_hashes has one entry
\* per outcome that is not valid, and neither bucket holds anything else.
C17_ClassifiesEveryOutcome ==
    [][\A r \in Runs :
         SendStep(r) =>
           LET res == rbuf'[r][1]
               vrs == results[r]
               invalid == Range(res.invalid_hashes)
               notvalid == {i \in 1..Len(vrs) : vrs[i].res.kind # "Valid"}
           IN  /\ \A i \in 1..Len(vrs) :
                    LET x == vrs[i]
                    IN  IF x.res.kind \in {"Invalid", "Unknown", "Error"}
                        THEN /\ x.hash \in invalid
                             /\ res.revalidated[x.hash] = Absent
                        ELSE /\ x.res.kind = "Valid"
                             /\ x.hash \notin invalid
                             /\ res.revalidated[x.hash].num = at[rview[r]].number
                             /\ res.revalidated[x.hash].validity = x.res.validity
                             /\ \E j \in 1..Len(snap[r]) :
                                   /\ snap[r][j].hash = x.hash
                                   /\ res.revalidated[x.hash].source =
                                         snap[r][j].source
                                   /\ res.revalidated[x.hash].data =
                                         snap[r][j].data
               /\ Len(res.invalid_hashes) = Cardinality(notvalid)
               /\ invalid \cup Present(res.revalidated) = HashesOf(vrs)]_vars

\* A result is in the channel with one hash reported invalid and one
\* revalidated.
C17_Witness ==
    \E r \in Runs :
       /\ rbuf[r] # <<>>
       /\ Len(rbuf[r][1].invalid_hashes) = 1
       /\ Cardinality(Present(rbuf[r][1].revalidated)) = 1

\* The step in which the worker of run r receives the cancellation signal.
CancelStep(r) ==
    /\ wpc[r] \in {"loop", "validating"}
    /\ wpc'[r] = "send"
    /\ cbuf[r] = 1
    /\ cbuf'[r] = 0

\* The hashes a result reports, in either bucket.
Reported(res) == Range(res.invalid_hashes) \cup Present(res.revalidated)

\* C18: the worker that receives the cancellation signal records no further
\* outcome; the result it sends reports exactly the hashes whose validation
\* had completed, so that the transactions of the snapshot that were not
\* validated, the one whose validation was abandoned included, are in
\* neither bucket; and the application of a result leaves every transaction
\* it does not report in the store exactly as it was.
C18_CancelledKeepsTheRest ==
    [][\A r \in Runs :
         /\ CancelStep(r) => results'[r] = results[r]
         /\ SendStep(r) =>
              /\ Reported(rbuf'[r][1]) = HashesOf(results[r])
              /\ \A h \in HashesOf(snap[r]) \ HashesOf(results[r]) :
                    h \notin Reported(rbuf'[r][1])
              /\ HashesOf(results[r]) \subseteq HashesOf(snap[r])
         /\ (RecvStep(r) /\ fres'[r] # <<>>) =>
              \A h \in Hashes \ Reported(fres'[r][1]) :
                 stores'[pool[rview[r]]][h] = stores[pool[rview[r]]][h]]_vars

\* The worker has left the loop on a cancellation received between the two
\* validations of its snapshot: one outcome is recorded, the second
\* transaction was never validated, and finish_revalidation waits for the
\* result.
C18_Witness ==
    \E r \in Runs :
       /\ wpc[r] = "send" /\ fpc[r] = "recv"
       /\ Len(snap[r]) = 2
       /\ Len(results[r]) = 1
       /\ cur[r] = NoTx

\* The step in which the worker of run r finds its batch exhausted: it
\* leaves the loop with nothing left to validate and without receiving a
\* signal.
ExhaustStep(r) ==
    /\ wpc[r] = "loop"
    /\ wpc'[r] = "send"
    /\ batch[r] = <<>>
    /\ cbuf'[r] = cbuf[r]

\* The steps of the finish_revalidation call of run r: the take of the
\* channels, and the point of the cancellation send.
TakeStep(r) == fpc[r] = "none" /\ fpc'[r] = "taken"
RequestStep(r) == fpc[r] = "taken" /\ fpc'[r] = "recv"

\* C19: the worker that exhausts its batch has an outcome for every
\* transaction of its snapshot, removes the sender of the channels
\* registered on the view, if any are, and has not sent its result yet.  A
\* finish_revalidation call that takes the channels after that finds no
\* sender, puts no signal in the channel, and receives the result the worker
\* sent; and that result has every hash of the snapshot in exactly one of
\* its buckets.
C19_ExhaustedDeregisters ==
    [][\A r \in Runs :
         LET v == rview[r]
         IN  /\ ExhaustStep(r) =>
                  /\ slot'[v] = IF slot[v].run # 0
                                THEN [run |-> slot[v].run, tx |-> FALSE]
                                ELSE slot[v]
                  /\ nsent'[r] = 0 /\ rbuf'[r] = <<>>
                  /\ Len(results[r]) = Len(snap[r])
                  /\ HashesOf(results[r]) = HashesOf(snap[r])
             /\ (TakeStep(r) /\ ~slot[v].tx) =>
                  /\ ~ftx'[r]
                  /\ wpc[r] \in {"send", "done"}
             /\ (RequestStep(r) /\ ~ftx[r]) =>
                  /\ cbuf[r] = 0 /\ cbuf'[r] = 0
                  /\ wpc[r] = "send" \/ Len(rbuf[r]) = 1
             /\ (RecvStep(r) /\ nsent[r] = 1) => fres'[r] = rbuf[r]
             /\ (SendStep(r) /\ Len(results[r]) = Len(snap[r])) =>
                  \A h \in HashesOf(snap[r]) :
                     (h \in Range(rbuf'[r][1].invalid_hashes))
                        # (h \in Present(rbuf'[r][1].revalidated))]_vars

\* The worker exhausted a snapshot of two and sent its result; a
\* finish_revalidation call has then taken the channels, without a sender.
C19_Witness ==
    \E r \in Runs :
       /\ fpc[r] = "taken" /\ ~ftx[r]
       /\ wpc[r] = "done" /\ Len(rbuf[r]) = 1
       /\ Cardinality(Reported(rbuf[r][1])) = 2

\* C20: submit_local stops at the first step that fails and leaves the
\* store as it was: a failed oracle call is returned as the error it is, an
\* Invalid verdict as InvalidTransaction, an Unknown verdict as
\* UnknownTransaction, each of them whether or not the block hash resolves;
\* InvalidBlockId is returned for a valid transaction on an unresolvable
\* hash.  The store changes only when the verdict is valid and the number
\* resolved, by the insertion of the record stamped with that number and
\* the local source; the store refuses a hash it already holds.
C20_StepsInOrder ==
    [][Returned("submit_local") =>
         LET v == last'.view
             t == last'.arg.data
             o == last'.arg.answer
             ret == last'.ret
             number == BlockIdToNumber(at[v].hash)
             st == StoreOf(v)
             st2 == stores'[pool[v]]
         IN  /\ o.kind = "Error" => (ret = Err("ApiError") /\ stores' = stores)
             /\ o.kind = "Invalid" =>
                   (ret = Err("InvalidTransaction") /\ stores' = stores)
             /\ o.kind = "Unknown" =>
                   (ret = Err("UnknownTransaction") /\ stores' = stores)
             /\ (o.kind = "Valid" /\ number = 0) =>
                   (ret = Err("InvalidBlockId") /\ stores' = stores)
             /\ (o.kind = "Valid" /\ number # 0 /\ st[HashOf(t)] # Absent) =>
                   (ret = Err("AlreadyImported") /\ stores' = stores)
             /\ (o.kind = "Valid" /\ number # 0 /\ st[HashOf(t)] = Absent) =>
                   /\ ret = Ok(HashOf(t))
                   /\ st2 = [st EXCEPT ![HashOf(t)] =
                               [num |-> number, validity |-> o.validity,
                                source |-> "Local", data |-> t]]]_vars

\* submit_local has just returned InvalidTransaction on a view whose block
\* hash does not resolve.
C20_Witness ==
    /\ last.op = "submit_local"
    /\ Unresolvable(last.view)
    /\ last.ret = Err("InvalidTransaction")

\* The calls that only concern the store.
StoreCalls == {"submit_local", "submit_one", "submit_many", "status",
               "is_imported", "remove_subtree"}

\* The step in which start_background_revalidation registers channels on v.
StartStep(v) ==
    /\ nruns' = nruns + 1
    /\ rview'[nruns'] = v
    /\ slot'[v] = [run |-> nruns', tx |-> TRUE]

\* C21: a call of submit_local, submit_one, submit_many, status, is_imported
\* or remove_subtree leaves the slot of every view as it was, Idle or
\* Running, and puts nothing in either channel nor takes anything out; and
\* a step that changes the slot of a view is a start_background_revalidation
\* on it, the take of a finish_revalidation call on it, or the batch
\* exhaustion of a worker revalidating it.
C21_CallsLeaveChannels ==
    [][/\ last'.op \in StoreCalls =>
             /\ slot' = slot
             /\ cbuf' = cbuf /\ rbuf' = rbuf /\ nsent' = nsent
             /\ fpc' = fpc /\ ftx' = ftx /\ wpc' = wpc
       /\ slot' # slot =>
             \A v \in Views :
                slot'[v] # slot[v] =>
                   \/ StartStep(v)
                   \/ \E r \in Runs :
                         rview[r] = v /\ (TakeStep(r) \/ ExhaustStep(r))]_vars

\* submit_one has just imported a transaction into a Running view whose
\* worker is in the middle of a validation, the sender still registered and
\* both channels empty.
C21_Witness ==
    /\ last.op = "submit_one"
    /\ last.ret.kind = "Ok"
    /\ slot[last.view].run # 0
    /\ slot[last.view].tx
    /\ wpc[slot[last.view].run] = "validating"
    /\ cbuf[slot[last.view].run] = 0
    /\ rbuf[slot[last.view].run] = <<>>

\* The step in which the worker of run r begins revalidate and takes its
\* snapshot.
QueueStep(r) == wpc[r] = "queued" /\ wpc'[r] = "loop"

NoDuplicates(s) == \A i, j \in 1..Len(s) : s[i] = s[j] => i = j

\* C22: the snapshot a worker takes when it begins revalidate holds each
\* transaction that is ready in the store at that moment once, and no other:
\* none that is held as future.  The result the worker sends has no hash
\* twice in invalid_hashes, no hash both in invalid_hashes and among the
\* keys of revalidated, and no hash outside that snapshot, so nothing that
\* entered the store after the snapshot was taken; and a result received by
\* finish_revalidation has the same structure.
C22_ResultWithinSnapshot ==
    [][\A r \in Runs :
         /\ QueueStep(r) =>
               /\ HashesOf(batch'[r]) = Ready(StoreOf(rview[r]))
               /\ Len(batch'[r]) = Cardinality(Ready(StoreOf(rview[r])))
               /\ snap'[r] = batch'[r]
         /\ SendStep(r) =>
               LET res == rbuf'[r][1]
               IN  /\ NoDuplicates(res.invalid_hashes)
                   /\ Range(res.invalid_hashes) \cap Present(res.revalidated) = {}
                   /\ Reported(res) \subseteq HashesOf(snap[r])
         /\ (RecvStep(r) /\ fres'[r] # <<>>) =>
               LET res == fres'[r][1]
               IN  /\ NoDuplicates(res.invalid_hashes)
                   /\ Range(res.invalid_hashes) \cap Present(res.revalidated)
                         = {}]_vars

\* A worker has left its loop with an outcome for the one transaction of
\* its snapshot, while the store holds the transaction that depends on it:
\* that one would have been ready, and in the snapshot, had it been in the
\* store when the snapshot was taken.
C22_Witness ==
    \E r \in Runs :
       /\ wpc[r] = "send"
       /\ HashesOf(snap[r]) = {1}
       /\ HashesOf(results[r]) = {1}
       /\ StoreOf(rview[r])[1] # Absent
       /\ StoreOf(rview[r])[2] # Absent

\* The local endpoints of run r were dropped by an overwrite: the run was
\* started, no finish_revalidation call took its channels, and the slot of
\* its view no longer holds them.
Overwritten(r) ==
    /\ rview[r] # 0
    /\ fpc[r] = "none"
    /\ slot[rview[r]].run # r

\* The step in which start_background_revalidation overwrites the channels
\* of run r.
OverwriteStep(r) ==
    /\ rview[r] # 0
    /\ slot[rview[r]].run = r
    /\ StartStep(rview[r])

\* revalidate has returned, or the queue dropped the request unrun.
Terminated(r) == wpc[r] \in {"done", "dropped"}

\* C23 as stated: once the channels of a run are overwritten its worker
\* terminates, its result send fails, and its result is never applied.
C23_OverwrittenSendFails ==
    /\ \A r \in Runs : Overwritten(r) ~> Terminated(r)
    /\ [](\A r \in Runs : Overwritten(r) => (nsent[r] = 0 /\ napplied[r] = 0))

\* C23: start_background_revalidation on a view with the channels of run r
\* registered registers those of the new run and drops the sender and the
\* receiver of run r, for good.  The worker of run r terminates: while it is
\* in its loop its cancellation receive is ready.  From the overwrite on no
\* send of run r succeeds, a failed send changing nothing, and what the
\* worker had sent before stays in the buffer unreceived; no
\* finish_revalidation call takes the channels of run r, and no result of
\* run r is ever applied to the store.
C23_OverwrittenNeverApplied ==
    /\ \A r \in Runs : Overwritten(r) ~> Terminated(r)
    /\ [][/\ nruns' # nruns => slot'[rview'[nruns']].run = nruns'
          /\ \A r \in Runs :
                /\ OverwriteStep(r) => Overwritten(r)'
                /\ Overwritten(r) =>
                      /\ Overwritten(r)'
                      /\ ~SenderAlive(r) /\ ~ReceiverAlive(r)
                      /\ wpc[r] \in {"loop", "validating"} => CancelReady(r)
                      /\ nsent'[r] = nsent[r]
                      /\ rbuf'[r] = rbuf[r]
                      /\ napplied[r] = 0 /\ napplied'[r] = 0
                      /\ (wpc[r] = "send" /\ wpc'[r] = "done") =>
                            stores' = stores]_vars

\* The worker of an overwritten run has returned after its send failed, and
\* the result of the run that replaced it has been applied.
C23_Witness ==
    \E r1, r2 \in Runs :
       /\ Overwritten(r1)
       /\ wpc[r1] = "done" /\ nsent[r1] = 0
       /\ rview[r2] = rview[r1] /\ r2 > r1
       /\ napplied[r2] = 1

====
